---- MODULE Spec2Model ----
(***************************************************************************)
(* State-machine model of AWSWebSocketGateway (src/src/server.ts): the     *)
(* live-session map, the timer table, each socket's ready state, the       *)
(* pending $connect promise and the backend POSTs started and delivered.   *)
(* One action per handler or callback of the class; every action runs the  *)
(* whole handler, as Node runs a callback to completion.                   *)
(***************************************************************************)
EXTENDS Integers, Sequences, FiniteSets, TLC

\* ------------------------------------------------------------------ bounds
\* the connections the clients open, and the frames and management pushes
\* the clients and the backend send, over all connections
MaxSessions == 1
MaxInputs == 3
\* the ticks of the clock
MaxTime == 3
\* the calls of stop()
MaxStops == 2

\* config.idleTimeout and config.hardTimeout, in ticks of the model's clock
IdleTimeout == 2
HardTimeout == 3

Ids == 1..MaxSessions

\* ------------------------------------------------------------ configuration
\* config.routes (the keys of the integration table) and
\* config.routeSelectionExpression (unset, or "$request.body.<path>").
NoExpression == "unset"
DefaultRoutes == {"$connect", "$disconnect", "$default"}

DEFAULT_CONFIG ==
    [routes |-> DefaultRoutes, expression |-> NoExpression, integrationMode |-> "lambda_proxy"]

Configs ==
    { DEFAULT_CONFIG,
      [DEFAULT_CONFIG EXCEPT !.expression = "$request.body.action"],
      [DEFAULT_CONFIG EXCEPT !.routes = {"$connect", "$disconnect"}],
      [DEFAULT_CONFIG EXCEPT !.routes = {"$default"}] }

\* ------------------------------------------------------------------ frames
\* The texts a client sends in the model; JSONparse gives what JSON.parse
\* yields for each of them.
Frames == { "hello", "{\"action\":\"$disconnect\"}", "{\"action\":\"$connect\"}" }

JStr(s) == [t |-> "string", s |-> s]
JNum == [t |-> "number"]
JNull == [t |-> "null"]
JFunction == [t |-> "function"]
JObj(k, v) == [t |-> "object", k |-> k, v |-> v]
ParseError == [t |-> "error"]
Absent == [t |-> "absent"]

\* More texts, for the route selector: members that name a custom route, a
\* member of Object.prototype, no route, a number; an object without the
\* member; JSON that is no object; an object in an object; a string where the
\* path expects an object.
RouteFrames ==
    Frames \cup
    { "{\"action\":\"join\"}", "{\"action\":\"constructor\"}", "{\"action\":\"nokey\"}",
      "{\"action\":1}", "{\"other\":\"join\"}", "null", "\"join\"",
      "{\"a\":{\"b\":\"join\"}}", "{\"a\":\"join\"}" }

JSONparse(message) ==
    CASE message = "{\"action\":\"$disconnect\"}" -> JObj("action", JStr("$disconnect"))
      [] message = "{\"action\":\"$connect\"}" -> JObj("action", JStr("$connect"))
      [] message = "{\"action\":\"join\"}" -> JObj("action", JStr("join"))
      [] message = "{\"action\":\"constructor\"}" -> JObj("action", JStr("constructor"))
      [] message = "{\"action\":\"nokey\"}" -> JObj("action", JStr("nokey"))
      [] message = "{\"action\":1}" -> JObj("action", JNum)
      [] message = "{\"other\":\"join\"}" -> JObj("other", JStr("join"))
      [] message = "null" -> JNull
      [] message = "\"join\"" -> JStr("join")
      [] message = "{\"a\":{\"b\":\"join\"}}" -> JObj("a", JObj("b", JStr("join")))
      [] message = "{\"a\":\"join\"}" -> JObj("a", JStr("join"))
      [] OTHER -> ParseError

\* expression.match(/^\$request\.body\.(.+)$/)[1].split('.'); << >> when the
\* expression does not match.
ExpressionPath(expr) ==
    CASE expr = "$request.body.action" -> <<"action">>
      [] expr = "$request.body.a.b" -> <<"a", "b">>
      [] OTHER -> << >>

\* Names every object inherits from Object.prototype: `key in value` and
\* value[key] find them in an object that has no such member of its own.
ObjectPrototype == {"constructor", "toString", "hasOwnProperty", "valueOf"}

\* The loop over the path: at each step the value must be an object
\* (typeof 'object', not null) that has the key, its own or inherited.
RECURSIVE Walk(_, _)
Walk(value, path) ==
    IF path = << >> THEN value
    ELSE IF value.t = "object" /\ value.k = Head(path) THEN Walk(value.v, Tail(path))
    ELSE IF value.t = "object" /\ Head(path) \in ObjectPrototype
         THEN Walk(JFunction, Tail(path))
    ELSE Absent

\* ------------------------------------------------------- request bodies
\* The body of a POST comes as chunks of bytes ('data' events); the handler
\* appends each chunk to a string, which decodes the chunk as UTF-8 by itself.
\* The bodies of the model: "p"; "e-acute" (bytes 195 169) in one chunk; the
\* same two bytes in two chunks.
PushBody == << <<112>> >>
Bodies == { PushBody, << <<195, 169>> >>, << <<195>>, <<169>> >> }

\* Buffer.toString('utf8') of one chunk, as a sequence of code points, for
\* bytes below 224 (sequences of one and two bytes): a byte that begins no
\* complete sequence of the chunk becomes U+FFFD.
RECURSIVE toString(_)
toString(chunk) ==
    IF chunk = << >> THEN << >>
    ELSE IF chunk[1] < 128 THEN <<chunk[1]>> \o toString(Tail(chunk))
    ELSE IF chunk[1] \in 194..223 /\ Len(chunk) >= 2 /\ chunk[2] \in 128..191
         THEN <<(chunk[1] - 192) * 64 + (chunk[2] - 128)>> \o toString(Tail(Tail(chunk)))
         ELSE <<65533>> \o toString(Tail(chunk))

\* let body = ''; req.on('data', (chunk) => (body += chunk))
RECURSIVE bodyOf(_)
bodyOf(chunks) ==
    IF chunks = << >> THEN << >> ELSE toString(Head(chunks)) \o bodyOf(Tail(chunks))

\* The payload of the text frame ws.send writes for a string: its UTF-8.
RECURSIVE utf8(_)
utf8(text) ==
    IF text = << >> THEN << >>
    ELSE LET c == Head(text)
         IN (IF c < 128 THEN <<c>>
             ELSE IF c < 2048 THEN <<192 + (c \div 64), 128 + (c % 64)>>
             ELSE <<224 + (c \div 4096), 128 + ((c \div 64) % 64), 128 + (c % 64)>>)
            \o utf8(Tail(text))

\* The bytes of a request body.
RECURSIVE bytesOf(_)
bytesOf(chunks) ==
    IF chunks = << >> THEN << >> ELSE Head(chunks) \o bytesOf(Tail(chunks))

VARIABLES
    phase,          \* "created" | "listening" | "stopping" (stop() called) |
                    \* "closing" (the WebSocket server closed) | "stopped" |
                    \* "crashed" (an uncaught exception ended the process)
    stops,          \* the promises of stop() not yet resolved
    posting,        \* per connection id: the POST whose body is being read
    response,       \* the HTTP response written by the last step
    routes,         \* config.routes (its keys)
    expression,     \* config.routeSelectionExpression
    integrationMode, \* config.integrationMode
    now,            \* the clock
    connections,    \* Map connectionId -> Connection
    timeoutTimers,  \* Map "<id>:idle" / "<id>:hard" -> timer
    armed,          \* the timers setTimeout has scheduled and nothing has cleared
    sock,           \* per connection: the WebSocket (readyState, close frame)
    connectState,   \* per connection: the promise of callBackend('$connect')
    received,       \* per connection: the frames received (text, time), in order
    dispatched,     \* per connection: the POSTs started by fetch, in order
    delivered,      \* per connection: the POSTs that reached the backend, in order
    settled,        \* per connection: the unawaited POSTs that ended (n, outcome)
    sent            \* per connection: the frames written by ws.send, in order

vars == <<phase, stops, posting, response, routes, expression, integrationMode, settled, now, connections, timeoutTimers, armed, sock,
          connectState, received, dispatched, delivered, sent>>

\* ----------------------------------------------------------------- helpers
Put(f, k, v) == [x \in DOMAIN f \cup {k} |-> IF x = k THEN v ELSE f[x]]
Del(f, K) == [x \in DOMAIN f \ K |-> f[x]]

IdleKey(id) == <<id, "idle">>
HardKey(id) == <<id, "hard">>

NoResponse == [status |-> 0]

\* No POST of the connection id is waiting for the end of its body.
NoPost == [connection |-> "none", chunks |-> << >>]

NoSocket == [readyState |-> "NONE", code |-> 0, reason |-> "", by |-> "none"]
OpenSocket == [NoSocket EXCEPT !.readyState = "OPEN"]

\* A close that sends its frame whatever the state of the socket.
WsClose_Again(s, code, reason) ==
    [readyState |-> "CLOSING", code |-> code, reason |-> reason, by |-> "server"]

\* ws.close(code, reason): only an OPEN socket starts the closing handshake;
\* on a CLOSING or CLOSED socket the call returns without effect.
WsClose(s, code, reason) ==
    IF s.readyState = "OPEN"
    THEN [readyState |-> "CLOSING", code |-> code, reason |-> reason, by |-> "server"]
    ELSE s

\* A write that moves the timestamp back by one.
Touch_Back(connection) == [connection EXCEPT !.lastActivityAt = @ - 1]

\* connection.lastActivityAt = new Date()
Touch(connection) == [connection EXCEPT !.lastActivityAt = now]

\* ------------------------------------------------------- route selection
\* config.routes[key]: the integration under the key, "inherited" for a
\* member of Object.prototype (truthy, and without uri), or undefined.
Undefined == "undefined"
Lookup(key) ==
    IF key \in routes THEN key
    ELSE IF key \in ObjectPrototype THEN "inherited"
    ELSE Undefined

\* selectRoute: '$default' unless the expression is set, the message parses,
\* the path leads to a string and config.routes[that string] is truthy.
selectRoute(message) ==
    IF expression \in {NoExpression, ""} THEN "$default"
    ELSE LET parsed == JSONparse(message)
             path == ExpressionPath(expression)
         IN IF parsed.t = "error" \/ path = << >> THEN "$default"
            ELSE LET value == Walk(parsed, path)
                 IN IF value.t = "string" /\ Lookup(value.s) # Undefined
                    THEN value.s
                    ELSE "$default"

getEventType(routeKey) ==
    CASE routeKey = "$connect" -> "CONNECT"
      [] routeKey = "$disconnect" -> "DISCONNECT"
      [] OTHER -> "MESSAGE"

\* config.routes[routeKey] || config.routes['$default']; "none" when both
\* are undefined.
Integration(routeKey) ==
    IF Lookup(routeKey) # Undefined THEN Lookup(routeKey)
    ELSE IF Lookup("$default") # Undefined THEN Lookup("$default")
    ELSE "none"

\* fetch(integration.uri) sends a request: the integration has a uri.
HasUri(integration) == integration \notin {"none", "inherited"}

NullBody == "null"
NoDisconnectOptions == [disconnectStatusCode |-> 0, disconnectReason |-> ""]

\* An event built without the disconnect options.
Event_NoOptions(id, routeKey, body, options) ==
    [ connectionId |-> id,
      eventType |-> getEventType(routeKey),
      routeKey |-> routeKey,
      uri |-> Integration(routeKey),
      n |-> Len(dispatched[id]) + 1,
      body |-> body,
      disconnectStatusCode |-> 0,
      disconnectReason |-> "" ]

\* The event built by buildLambdaEvent and POSTed by fetch.  n is the
\* position of the request among those of its connection (its requestId).
Event(id, routeKey, body, options) ==
    [ connectionId |-> id,
      eventType |-> getEventType(routeKey),
      routeKey |-> routeKey,
      uri |-> Integration(routeKey),
      n |-> Len(dispatched[id]) + 1,
      body |-> body,
      disconnectStatusCode |->
          IF getEventType(routeKey) = "DISCONNECT" THEN options.disconnectStatusCode ELSE 0,
      disconnectReason |->
          IF getEventType(routeKey) = "DISCONNECT" THEN options.disconnectReason ELSE "" ]

\* JSON.stringify(event): the text of a JSON object that holds the event.
JSONstringify(event) == [encoding |-> "json", of |-> event]

\* The request fetch sends for an event: the same for every integration
\* mode, the JSON text of the event under the one header Content-Type.
fetchRequest(event) ==
    [ uri |-> event.uri,
      method |-> "POST",
      headers |-> [h \in {"Content-Type"} |-> "application/json"],
      body |-> JSONstringify(event) ]

\* callBackend up to its await: the POSTs started for id so far, afterwards.
\* Without an integration it returns false; fetch of an undefined uri throws
\* before any request is sent.
callBackend(routeKey, id, body, options) ==
    IF ~HasUri(Integration(routeKey))
    THEN dispatched[id]
    ELSE Append(dispatched[id], Event(id, routeKey, body, options))

\* ------------------------------------------------------------------ timers
\* A timer of setTimeout, named by its key in the table and its deadline.
Handle(k, deadline) == [key |-> k, deadline |-> deadline]

Timers == [table |-> timeoutTimers, armed |-> armed]

Existing(T, k) == IF k \in DOMAIN T.table THEN {T.table[k]} ELSE {}

\* A reset that schedules the new timer without clearTimeout of the old one.
resetIdleTimeout_NoClear(T, id) ==
    LET idleTimer == Handle(IdleKey(id), now + IdleTimeout)
    IN [ table |-> Put(T.table, IdleKey(id), idleTimer),
         armed |-> T.armed \cup {idleTimer} ]

resetIdleTimeout(T, id) ==
    LET idleTimer == Handle(IdleKey(id), now + IdleTimeout)
    IN [ table |-> Put(T.table, IdleKey(id), idleTimer),
         armed |-> (T.armed \ Existing(T, IdleKey(id))) \cup {idleTimer} ]

\* A setup that arms the idle timer alone.
setupTimeouts_NoHard(T, id) == resetIdleTimeout(T, id)

setupTimeouts(T, id) ==
    LET R == resetIdleTimeout(T, id)
        hardTimer == Handle(HardKey(id), now + HardTimeout)
    IN [ table |-> Put(R.table, HardKey(id), hardTimer),
         armed |-> R.armed \cup {hardTimer} ]

\* A close handler that leaves the timers to the end of the $disconnect POST.
clearTimeouts_Later(T, id) == T

clearTimeouts(T, id) ==
    [ table |-> Del(T.table, {IdleKey(id), HardKey(id)}),
      armed |-> (T.armed \ Existing(T, IdleKey(id))) \ Existing(T, HardKey(id)) ]

Due(h) == h \in armed /\ h.deadline <= now

\* The connections opened, frames received and pushes written so far: the
\* model stops the clients and the backend at MaxInputs of them.
RECURSIVE SumLen(_, _)
SumLen(f, S) ==
    IF S = {} THEN 0
    ELSE LET x == CHOOSE y \in S : TRUE IN Len(f[x]) + SumLen(f, S \ {x})

Inputs ==
    Cardinality({id \in Ids : sock[id].readyState # "NONE"})
      + Cardinality({id \in Ids : posting[id] # NoPost})
      + SumLen(received, Ids) + SumLen(sent, Ids)

\* -------------------------------------------------------------------- Init
Init ==
    /\ phase = "created"
    /\ stops = 0
    /\ posting = [id \in Ids |-> NoPost]
    /\ response = NoResponse
    /\ \E c \in Configs :
          /\ routes = c.routes
          /\ expression = c.expression
          /\ integrationMode = c.integrationMode
    /\ settled = [id \in Ids |-> {}]
    /\ now = 0
    /\ connections = << >>
    /\ timeoutTimers = << >>
    /\ armed = {}
    /\ sock = [id \in Ids |-> NoSocket]
    /\ connectState = [id \in Ids |-> "none"]
    /\ received = [id \in Ids |-> << >>]
    /\ dispatched = [id \in Ids |-> << >>]
    /\ delivered = [id \in Ids |-> << >>]
    /\ sent = [id \in Ids |-> << >>]

\* ----------------------------------------------------------------- actions
start ==
    /\ phase = "created"
    /\ phase' = "listening"
    /\ UNCHANGED <<routes, expression, integrationMode, settled, now, connections, timeoutTimers, armed, sock,
                   connectState, received, dispatched, delivered, sent,
                   posting, stops>>
    /\ response' = NoResponse

\* A callback that forgets to close the socket.
connectResult_NoClose(s, success) == s

\* A callback that closes the socket with the code of a timeout.
connectResult_GoingAway(s, success) ==
    IF success THEN s ELSE WsClose(s, 1001, "Backend connect failed")

\* The .then callback of callBackend('$connect', ...).
connectResult(s, success) ==
    IF success THEN s ELSE WsClose(s, 1011, "Backend connect failed")

\* wss 'connection': handleConnection.  The model admits a session only while
\* its clock can still reach the session's hard deadline.
\*   With no integration for $connect the
\* promise is already resolved false, and its callback closes the socket
\* before any other event is handled.
handleConnection(id) ==
    /\ phase = "listening"
    /\ Inputs < MaxInputs
    /\ now + HardTimeout <= MaxTime
    /\ sock[id].readyState = "NONE"
    /\ \A j \in Ids : j < id => sock[j].readyState # "NONE"
    /\ connections' = Put(connections, id, [connectedAt |-> now, lastActivityAt |-> now])
    /\ timeoutTimers' = setupTimeouts(Timers, id).table
    /\ armed' = setupTimeouts(Timers, id).armed
    /\ dispatched' = [dispatched EXCEPT ![id] =
                        callBackend("$connect", id, NullBody, NoDisconnectOptions)]
    /\ IF Integration("$connect") = "none"
       THEN /\ connectState' = [connectState EXCEPT ![id] = "unreachable"]
            /\ sock' = [sock EXCEPT ![id] = connectResult(OpenSocket, FALSE)]
       ELSE /\ connectState' = [connectState EXCEPT ![id] = "inflight"]
            /\ sock' = [sock EXCEPT ![id] = OpenSocket]
    /\ UNCHANGED <<phase, routes, expression, integrationMode, settled, now, received, delivered, sent,
                   posting, stops>>
    /\ response' = NoResponse

\* The $connect POST ends (accepted: 2xx; rejected: another status;
\* unreachable: fetch threw) and the .then callback of handleConnection runs.
connectCallback(id, outcome) ==
    /\ connectState[id] = "inflight"
    /\ connectState' = [connectState EXCEPT ![id] = outcome]
    /\ delivered' = [delivered EXCEPT ![id] =
                       IF outcome = "unreachable" THEN @ ELSE Append(@, dispatched[id][1])]
    /\ sock' = [sock EXCEPT ![id] = connectResult(@, outcome = "accepted")]
    /\ UNCHANGED <<phase, routes, expression, integrationMode, settled, now, connections, timeoutTimers, armed,
                   received, dispatched, sent,
                   posting, stops>>
    /\ response' = NoResponse

\* ws 'message': frames keep arriving until the client's close frame does,
\* so also on a socket the server has started to close.
onMessage(id, message) ==
    /\ \/ sock[id].readyState = "OPEN"
       \/ sock[id].readyState = "CLOSING" /\ sock[id].by = "server"
    /\ Inputs < MaxInputs
    /\ received' = [received EXCEPT ![id] = Append(@, [text |-> message, at |-> now])]
    /\ connections' = IF id \in DOMAIN connections
                      THEN [connections EXCEPT ![id] = Touch(@)]
                      ELSE connections
    /\ timeoutTimers' = resetIdleTimeout(Timers, id).table
    /\ armed' = resetIdleTimeout(Timers, id).armed
    /\ dispatched' = [dispatched EXCEPT ![id] =
                        callBackend(selectRoute(message), id, message, NoDisconnectOptions)]
    /\ UNCHANGED <<phase, routes, expression, integrationMode, settled, now, sock, connectState, delivered, sent,
                   posting, stops>>
    /\ response' = NoResponse

\* The client sends its close frame.
clientClose(id) ==
    /\ sock[id].readyState = "OPEN"
    /\ sock' = [sock EXCEPT ![id] =
                  [readyState |-> "CLOSING", code |-> 1000, reason |-> "bye", by |-> "client"]]
    /\ UNCHANGED <<phase, routes, expression, integrationMode, settled, now, connections, timeoutTimers, armed,
                   connectState, received, dispatched, delivered, sent,
                   posting, stops>>
    /\ response' = NoResponse

\* ws 'close': the closing handshake is over; the handler is given the code
\* and reason of the close frame.
onClose(id) ==
    /\ sock[id].readyState = "CLOSING"
    /\ sock' = [sock EXCEPT ![id].readyState = "CLOSED"]
    /\ dispatched' = [dispatched EXCEPT ![id] =
                        callBackend("$disconnect", id, NullBody,
                                    [disconnectStatusCode |-> sock[id].code,
                                     disconnectReason |-> sock[id].reason])]
    /\ timeoutTimers' = clearTimeouts(Timers, id).table
    /\ armed' = clearTimeouts(Timers, id).armed
    /\ connections' = Del(connections, {id})
    /\ UNCHANGED <<phase, routes, expression, integrationMode, settled, now, connectState, received, delivered, sent,
                   posting, stops>>
    /\ response' = NoResponse

\* The callback of the idle timer.
idleTimer(id) ==
    \E h \in armed :
        /\ h.key = IdleKey(id)
        /\ Due(h)
        /\ armed' = armed \ {h}
        /\ sock' = [sock EXCEPT ![id] =
                      IF id \in DOMAIN connections
                      THEN WsClose(@, 1001, "Idle timeout") ELSE @]
        /\ UNCHANGED <<phase, routes, expression, integrationMode, settled, now, connections, timeoutTimers,
                       connectState, received, dispatched, delivered, sent,
                       posting, stops>>
        /\ response' = NoResponse

\* The callback of the hard timer.
hardTimer(id) ==
    \E h \in armed :
        /\ h.key = HardKey(id)
        /\ Due(h)
        /\ armed' = armed \ {h}
        /\ sock' = [sock EXCEPT ![id] =
                      IF id \in DOMAIN connections
                      THEN WsClose(@, 1001, "Hard timeout") ELSE @]
        /\ UNCHANGED <<phase, routes, expression, integrationMode, settled, now, connections, timeoutTimers,
                       connectState, received, dispatched, delivered, sent,
                       posting, stops>>
        /\ response' = NoResponse

\* Time passes while a timer is armed (with none armed the clock has nothing
\* to act on); a timer that is due runs before the clock moves on.
Tick ==
    /\ now < MaxTime
    /\ armed # {}
    /\ \A h \in armed : ~Due(h)
    /\ now' = now + 1
    /\ UNCHANGED <<phase, routes, expression, integrationMode, settled, connections, timeoutTimers, armed, sock,
                   connectState, received, dispatched, delivered, sent,
                   posting, stops>>
    /\ response' = NoResponse

\* ------------------------------------------------------- the HTTP handlers
\* A response: res.writeHead(status) and the object given to JSON.stringify
\* for res.end (NoBody for the bare res.end()).
NoBody == "none"
Response(method, path, status, body) ==
    [method |-> method, path |-> path, status |-> status, body |-> body]

\* The segment after /@connections/ as the request has it: the id of a
\* session, which needs no escape, or Malformed, the segment "%", a percent
\* sign that begins no escape.  decodeURIComponent throws URIError for it.
Malformed == 0
URIError == -1
decodeURIComponent(segment) == IF segment = Malformed THEN URIError ELSE segment

ConnectionPath(id) == <<"/@connections", id>>
Request(method, path) == [method |-> method, path |-> path]

\* The requests that can act on a session, and those that cannot.
SessionRequests ==
    {Request(method, ConnectionPath(id)) : method \in {"POST", "DELETE"}, id \in Ids}
OtherRequests ==
    {Request("GET", <<"/health">>), Request("GET", <<"/nowhere">>),
     Request("POST", <<"/health">>), Request("GET", <<"/@connections", Malformed>>)}
      \cup {Request(method, ConnectionPath(id)) : method \in {"GET", "PUT"}, id \in Ids}

Gone410(id) == [message |-> "Gone", connectionId |-> id]

\* A count of every session ever admitted.
getConnectionCount_Ever == Cardinality({id \in Ids : sock[id].readyState # "NONE"})

getConnectionCount == Cardinality(DOMAIN connections)

\* GET /health
health ==
    /\ response' = Response("GET", <<"/health">>, 200,
                            [status |-> "ok", connections |-> getConnectionCount])
    /\ UNCHANGED <<phase, stops, posting, routes, expression, integrationMode, settled, now, connections,
                   timeoutTimers, armed, sock, connectState, received, dispatched,
                   delivered, sent>>

\* A GET that counts as activity of the session.
getConnection_Touch(id) ==
    /\ response' =
          IF id \in DOMAIN connections
          THEN Response("GET", ConnectionPath(id), 200,
                        [connectionId |-> id,
                         connectedAt |-> connections[id].connectedAt,
                         lastActiveAt |-> connections[id].lastActivityAt])
          ELSE Response("GET", ConnectionPath(id), 410, Gone410(id))
    /\ connections' = IF id \in DOMAIN connections
                      THEN [connections EXCEPT ![id] = Touch(@)]
                      ELSE connections
    /\ UNCHANGED <<phase, stops, posting, routes, expression, integrationMode, settled, now,
                   timeoutTimers, armed, sock, connectState, received, dispatched,
                   delivered, sent>>

\* GET /@connections/{id}
getConnection(id) ==
    /\ response' =
          IF id \in DOMAIN connections
          THEN Response("GET", ConnectionPath(id), 200,
                        [connectionId |-> id,
                         connectedAt |-> connections[id].connectedAt,
                         lastActiveAt |-> connections[id].lastActivityAt])
          ELSE Response("GET", ConnectionPath(id), 410, Gone410(id))
    /\ UNCHANGED <<phase, stops, posting, routes, expression, integrationMode, settled, now, connections,
                   timeoutTimers, armed, sock, connectState, received, dispatched,
                   delivered, sent>>

\* A DELETE that answers without closing the socket.
deleteConnection_NoClose(id) ==
    /\ response' =
          IF id \in DOMAIN connections /\ sock[id].readyState = "OPEN"
          THEN Response("DELETE", ConnectionPath(id), 204, NoBody)
          ELSE Response("DELETE", ConnectionPath(id), 410, Gone410(id))
    /\ UNCHANGED <<phase, stops, posting, routes, expression, integrationMode, settled, now, connections,
                   timeoutTimers, armed, sock, connectState, received, dispatched,
                   delivered, sent>>

\* DELETE /@connections/{id}
deleteConnection(id) ==
    /\ IF id \in DOMAIN connections /\ sock[id].readyState = "OPEN"
       THEN /\ sock' = [sock EXCEPT ![id] = WsClose(@, 1000, "Closed by management API")]
            /\ response' = Response("DELETE", ConnectionPath(id), 204, NoBody)
       ELSE /\ sock' = sock
            /\ response' = Response("DELETE", ConnectionPath(id), 410, Gone410(id))
    /\ UNCHANGED <<phase, stops, posting, routes, expression, integrationMode, settled, now, connections,
                   timeoutTimers, armed, connectState, received, dispatched,
                   delivered, sent>>

\* POST /@connections/{id}, the request: the handler looks the connection up
\* and waits for the body; it answers at the end of the body.
postRequest(id, chunks) ==
    /\ posting[id] = NoPost
    /\ Inputs < MaxInputs
    /\ posting' = [posting EXCEPT ![id] =
                     [connection |-> IF id \in DOMAIN connections THEN "found" ELSE "absent",
                      chunks |-> chunks]]
    /\ response' = NoResponse
    /\ UNCHANGED <<phase, stops, routes, expression, integrationMode, settled, now, connections, timeoutTimers,
                   armed, sock, connectState, received, dispatched, delivered, sent>>

\* Any other method on /@connections/{id}
methodNotAllowed(method, id) ==
    /\ response' = Response(method, ConnectionPath(id), 405,
                            [message |-> "Method Not Allowed"])
    /\ UNCHANGED <<phase, stops, posting, routes, expression, integrationMode, settled, now, connections,
                   timeoutTimers, armed, sock, connectState, received, dispatched,
                   delivered, sent>>

handleManagementApi(method, id, chunks) ==
    CASE method = "GET" -> getConnection(id)
      [] method = "DELETE" -> deleteConnection(id)
      [] method = "POST" -> postRequest(id, chunks)
      [] OTHER -> methodNotAllowed(method, id)

notFound(method, path) ==
    /\ response' = Response(method, path, 404, [message |-> "Not Found"])
    /\ UNCHANGED <<phase, stops, posting, routes, expression, integrationMode, settled, now, connections,
                   timeoutTimers, armed, sock, connectState, received, dispatched,
                   delivered, sent>>

\* An exception that no handler catches, thrown in a listener of 'request':
\* the request gets no response and the process ends, with its sessions,
\* timers, promises and requests; the sockets close without a close frame.
uncaughtException ==
    /\ phase' = "crashed"
    /\ response' = NoResponse
    /\ connections' = << >>
    /\ timeoutTimers' = << >>
    /\ armed' = {}
    /\ posting' = [id \in Ids |-> NoPost]
    /\ connectState' = [id \in Ids |->
                          IF connectState[id] = "inflight" THEN "none" ELSE connectState[id]]
    /\ sock' = [id \in Ids |->
                  IF sock[id].readyState \in {"OPEN", "CLOSING"}
                  THEN [readyState |-> "CLOSED", code |-> 1006, reason |-> "", by |-> "crash"]
                  ELSE sock[id]]
    /\ UNCHANGED <<stops, routes, expression, integrationMode, settled, now, received,
                   dispatched, delivered, sent>>

\* The HTTP server's 'request': it is listening from start() until stop()
\* has closed it.
handleHttpRequest(method, path, chunks) ==
    /\ phase \in {"listening", "stopping"}
    /\ IF method = "GET" /\ path = <<"/health">> THEN health
       ELSE IF Len(path) = 2 /\ path[1] = "/@connections"
            THEN IF decodeURIComponent(path[2]) = URIError
                 THEN uncaughtException
                 ELSE handleManagementApi(method, decodeURIComponent(path[2]), chunks)
            ELSE notFound(method, path)

\* An end of body that writes to whatever socket the connection has.
postToConnection_NoCheck(id) ==
    /\ posting[id] # NoPost
    /\ posting' = [posting EXCEPT ![id] = NoPost]
    /\ IF posting[id].connection = "found"
       THEN /\ sent' = [sent EXCEPT ![id] = Append(@, bodyOf(posting[id].chunks))]
            /\ response' = Response("POST", ConnectionPath(id), 200, NoBody)
       ELSE /\ UNCHANGED sent
            /\ response' = Response("POST", ConnectionPath(id), 410, Gone410(id))
    /\ UNCHANGED <<phase, stops, routes, expression, integrationMode, settled, now, connections, timeoutTimers,
                   armed, sock, connectState, received, dispatched, delivered>>

\* POST /@connections/{id}, the end of the request body: the connection is
\* the one the handler found when the request came, the body the string the
\* 'data' events built (they touch nothing else, so they are taken here).
postToConnection(id) ==
    /\ posting[id] # NoPost
    /\ posting' = [posting EXCEPT ![id] = NoPost]
    /\ IF posting[id].connection = "found" /\ sock[id].readyState = "OPEN"
       THEN /\ sent' = [sent EXCEPT ![id] = Append(@, bodyOf(posting[id].chunks))]
            /\ connections' = IF id \in DOMAIN connections
                              THEN [connections EXCEPT ![id] = Touch(@)]
                              ELSE connections
            /\ response' = Response("POST", ConnectionPath(id), 200, NoBody)
       ELSE /\ UNCHANGED <<sent, connections>>
            /\ response' = Response("POST", ConnectionPath(id), 410, Gone410(id))
    /\ UNCHANGED <<phase, stops, routes, expression, integrationMode, settled, now, timeoutTimers, armed, sock,
                   connectState, received, dispatched, delivered>>

\* ---------------------------------------------------------------- shutdown
\* A stop() that leaves the sessions it closes in the live set.
stop_KeepMap ==
    /\ phase # "created"
    /\ stops < MaxStops
    /\ stops' = stops + 1
    /\ phase' = IF phase = "listening" THEN "stopping" ELSE phase
    /\ sock' = [id \in Ids |->
                  IF id \in DOMAIN connections
                  THEN WsClose(sock[id], 1001, "Server shutting down") ELSE sock[id]]
    /\ armed' = armed \ {timeoutTimers[k] : k \in DOMAIN timeoutTimers}
    /\ timeoutTimers' = << >>
    /\ response' = NoResponse
    /\ UNCHANGED <<posting, routes, expression, integrationMode, settled, now, connections, connectState,
                   received, dispatched, delivered, sent>>

\* A stop() that leaves the timers to the 'close' handlers.
stop_NoTimers ==
    /\ phase # "created"
    /\ stops < MaxStops
    /\ stops' = stops + 1
    /\ phase' = IF phase = "listening" THEN "stopping" ELSE phase
    /\ sock' = [id \in Ids |->
                  IF id \in DOMAIN connections
                  THEN WsClose(sock[id], 1001, "Server shutting down") ELSE sock[id]]
    /\ connections' = << >>
    /\ response' = NoResponse
    /\ UNCHANGED <<posting, routes, expression, integrationMode, settled, now, timeoutTimers, armed, connectState,
                   received, dispatched, delivered, sent>>

\* stop(), up to wss.close(...): the callbacks given there run later.
stop ==
    /\ phase \notin {"created", "crashed"}
    /\ stops < MaxStops
    /\ stops' = stops + 1
    /\ phase' = IF phase = "listening" THEN "stopping" ELSE phase
    /\ sock' = [id \in Ids |->
                  IF id \in DOMAIN connections
                  THEN WsClose(sock[id], 1001, "Server shutting down") ELSE sock[id]]
    /\ connections' = << >>
    /\ armed' = armed \ {timeoutTimers[k] : k \in DOMAIN timeoutTimers}
    /\ timeoutTimers' = << >>
    /\ response' = NoResponse
    /\ UNCHANGED <<posting, routes, expression, integrationMode, settled, now, connectState, received,
                   dispatched, delivered, sent>>

\* The callback of wss.close: the WebSocket server has closed, which it does
\* once the last of its clients has; the callback calls httpServer.close.
wssClosed ==
    /\ phase = "stopping"
    /\ \A id \in Ids : sock[id].readyState \in {"NONE", "CLOSED"}
    /\ phase' = "closing"
    /\ response' = NoResponse
    /\ UNCHANGED <<stops, posting, routes, expression, integrationMode, settled, now, connections, timeoutTimers,
                   armed, sock, connectState, received, dispatched, delivered, sent>>

\* An HTTP server that closes only once no $connect POST is in flight.
httpClosed_AwaitBackend ==
    /\ phase \in {"closing", "stopped"}
    /\ stops > 0
    /\ \A id \in Ids : posting[id] = NoPost /\ connectState[id] # "inflight"
    /\ phase' = "stopped"
    /\ stops' = 0
    /\ response' = NoResponse
    /\ UNCHANGED <<posting, routes, expression, integrationMode, settled, now, connections, timeoutTimers,
                   armed, sock, connectState, received, dispatched, delivered, sent>>

\* The callback of httpServer.close: the HTTP server has closed, which it does
\* once no request is in progress; every pending stop() resolves.
httpClosed ==
    /\ phase \in {"closing", "stopped"}
    /\ stops > 0
    /\ \A id \in Ids : posting[id] = NoPost
    /\ phase' = "stopped"
    /\ stops' = 0
    /\ response' = NoResponse
    /\ UNCHANGED <<posting, routes, expression, integrationMode, settled, now, connections, timeoutTimers,
                   armed, sock, connectState, received, dispatched, delivered, sent>>

Next ==
    \/ start
    \/ \E id \in Ids : handleConnection(id)
    \/ \E id \in Ids, outcome \in {"accepted", "rejected", "unreachable"} :
          connectCallback(id, outcome)
    \/ \E id \in Ids, message \in Frames : onMessage(id, message)
    \/ \E id \in Ids : clientClose(id)
    \/ \E id \in Ids : onClose(id)
    \/ \E id \in Ids : idleTimer(id)
    \/ \E id \in Ids : hardTimer(id)
    \/ Tick
    \/ \E req \in SessionRequests : handleHttpRequest(req.method, req.path, PushBody)
    \/ \E id \in Ids : postToConnection(id)
    \/ stop
    \/ wssClosed
    \/ httpClosed

Spec == Init /\ [][Next]_vars

\* The close handshake of a socket ends: the peer answers the close frame,
\* or ws gives up waiting and destroys the socket; either way 'close' fires.
FairSpec == Spec /\ \A id \in Ids : WF_vars(onClose(id))

\* Timers that are due fire and the clock moves on; a closing handshake
\* ends; the body of a request that has begun ends; the servers close once
\* nothing holds them open.  Nothing is assumed of the backend: a POST to it
\* may never end.
LiveSpec ==
    /\ Spec
    /\ WF_vars(Tick)
    /\ WF_vars(wssClosed)
    /\ WF_vars(httpClosed)
    /\ \A id \in Ids :
          /\ WF_vars(onClose(id))
          /\ WF_vars(idleTimer(id))
          /\ WF_vars(hardTimer(id))
          /\ WF_vars(postToConnection(id))

\* ------------------------------------------------- all the HTTP requests
\* The gateway under every kind of HTTP request, those included that no
\* session can notice (the behaviours of Spec are these, with the steps of
\* such requests left out) and with every body of Bodies.
InitHttp == Init /\ routes = DEFAULT_CONFIG.routes /\ expression = DEFAULT_CONFIG.expression

NextHttp ==
    \/ Next
    \/ \E req \in OtherRequests : handleHttpRequest(req.method, req.path, << >>)
    \/ \E id \in Ids, chunks \in Bodies :
          handleHttpRequest("POST", ConnectionPath(id), chunks)

SpecHttp == InitHttp /\ [][NextHttp]_vars

\* ----------------------------------------------------------- identities
\* The specifications above take the identities of the sessions distinct.
\* This one draws them as generateConnectionId does: IdLength characters
\* (12 in the source) of IdChars (62 in the source), each chosen by
\* Math.random with no look at the identities in use, and '='.  Here sock is
\* the sequence of the WebSockets accepted, each with the connectionId of its
\* handleConnection, and a Connection names its WebSocket by its place in
\* that sequence.  The backend events are left out.
IdChars == {"A", "B"}
IdLength == 2
MaxSockets == 3

generateConnectionId ==
    { [i \in 1..(IdLength + 1) |-> IF i <= IdLength THEN s[i] ELSE "="] :
        s \in [1..IdLength -> IdChars] }

InitId ==
    /\ phase = "created"
    /\ stops = 0
    /\ posting = [id \in Ids |-> NoPost]
    /\ response = NoResponse
    /\ routes = DEFAULT_CONFIG.routes
    /\ expression = DEFAULT_CONFIG.expression
    /\ integrationMode = DEFAULT_CONFIG.integrationMode
    /\ settled = [id \in Ids |-> {}]
    /\ now = 0
    /\ connections = << >>
    /\ timeoutTimers = << >>
    /\ armed = {}
    /\ sock = << >>
    /\ connectState = [id \in Ids |-> "none"]
    /\ received = [id \in Ids |-> << >>]
    /\ dispatched = [id \in Ids |-> << >>]
    /\ delivered = [id \in Ids |-> << >>]
    /\ sent = [id \in Ids |-> << >>]

\* handleConnection, up to the dispatch of $connect.
handleConnectionId ==
    \E connectionId \in generateConnectionId :
        /\ phase = "listening"
        /\ Len(sock) < MaxSockets
        /\ sock' = Append(sock, [readyState |-> "OPEN", connectionId |-> connectionId])
        /\ connections' = Put(connections, connectionId,
                              [ws |-> Len(sock) + 1, connectedAt |-> now,
                               lastActivityAt |-> now])
        /\ timeoutTimers' = setupTimeouts(Timers, connectionId).table
        /\ armed' = setupTimeouts(Timers, connectionId).armed
        /\ UNCHANGED <<phase, stops, posting, response, routes, expression, integrationMode, settled, now,
                       connectState, received, dispatched, delivered, sent>>

\* ws 'close' of the k-th WebSocket, whose handler knows its connectionId.
onCloseId(k) ==
    /\ phase = "listening"
    /\ k \in 1..Len(sock)
    /\ sock[k].readyState = "OPEN"
    /\ sock' = [sock EXCEPT ![k].readyState = "CLOSED"]
    /\ timeoutTimers' = clearTimeouts(Timers, sock[k].connectionId).table
    /\ armed' = clearTimeouts(Timers, sock[k].connectionId).armed
    /\ connections' = Del(connections, {sock[k].connectionId})
    /\ UNCHANGED <<phase, stops, posting, response, routes, expression, integrationMode, settled, now,
                   connectState, received, dispatched, delivered, sent>>

NextId ==
    \/ start
    \/ handleConnectionId
    \/ \E k \in 1..MaxSockets : onCloseId(k)

SpecId == InitId /\ [][NextId]_vars

\* ------------------------------------------------------------ the network
\* A POST whose result nobody awaits reaches the backend.  The gateway has
\* several POSTs in flight at once, each a request of its own, and nothing
\* orders their arrival.  (The awaited $connect POST arrives in
\* connectCallback.)
AwaitedConnect(id) == IF Integration("$connect") = "none" THEN {} ELSE {1}

InFlight(id) ==
    { i \in 1..Len(dispatched[id]) :
        /\ i \notin AwaitedConnect(id)
        /\ \A j \in 1..Len(delivered[id]) : delivered[id][j].n # i }

deliver(id, i) ==
    /\ i \in InFlight(id)
    /\ delivered' = [delivered EXCEPT ![id] = Append(@, dispatched[id][i])]
    /\ UNCHANGED <<phase, routes, expression, integrationMode, settled, now, connections, timeoutTimers, armed,
                   sock, connectState, received, dispatched, sent,
                   posting, stops>>
    /\ response' = NoResponse

InitNet == Init /\ routes = DEFAULT_CONFIG.routes /\ expression = DEFAULT_CONFIG.expression

NextNet ==
    \/ Next
    \/ \E id \in Ids, i \in 1..(MaxInputs + 1) : deliver(id, i)

SpecNet == InitNet /\ [][NextNet]_vars

\* ================================================================= claims
\* ---------------------------------------------- the ends of the POSTs
\* The POSTs of id that nothing awaits (all but the $connect one) and that
\* have not ended yet.
Pending(id) ==
    { i \in 1..Len(dispatched[id]) :
        /\ i \notin AwaitedConnect(id)
        /\ \A s \in settled[id] : s.n # i }

\* A handler of the result that closes the socket when the POST failed.
callBackendResult_Close(s, success) == connectResult(s, success)

\* What the callers of callBackend for a frame or a close do with its
\* result: nothing.
callBackendResult(s, success) == s

\* The i-th POST of id ends: fetch resolves (accepted: 2xx; rejected: another
\* status) or throws (unreachable); callBackend logs and returns.
callBackendEnd(id, i, outcome) ==
    /\ i \in Pending(id)
    /\ settled' = [settled EXCEPT ![id] = @ \cup {[n |-> i, outcome |-> outcome]}]
    /\ sock' = [sock EXCEPT ![id] = callBackendResult(@, outcome = "accepted")]
    /\ UNCHANGED <<phase, stops, posting, routes, expression, integrationMode, now,
                   connections, timeoutTimers, armed, connectState, received,
                   dispatched, delivered, sent>>
    /\ response' = NoResponse

NextDispatch ==
    \/ start
    \/ \E id \in Ids : handleConnection(id)
    \/ \E id \in Ids, outcome \in {"accepted", "rejected", "unreachable"} :
          connectCallback(id, outcome)
    \/ \E id \in Ids, message \in Frames : onMessage(id, message)
    \/ \E id \in Ids : clientClose(id)
    \/ \E id \in Ids : onClose(id)
    \/ \E id \in Ids : idleTimer(id)
    \/ \E id \in Ids : hardTimer(id)
    \/ Tick
    \/ \E id \in Ids, i \in 1..(MaxInputs + 1), outcome \in {"accepted", "rejected", "unreachable"} :
          callBackendEnd(id, i, outcome)

SpecDispatch == Init /\ [][NextDispatch]_vars

\* ------------------------------------------- every configuration and frame
\* The route selector and the dispatcher under more configurations (a custom
\* route, each kind of expression, both integration modes) and every frame
\* of RouteFrames; no timer fires, no HTTP request comes and nothing stops.
Expressions ==
    {NoExpression, "", "$request.body.action", "$request.body.a.b", "$context.routeKey"}

RouteConfigs ==
    Configs
    \cup { [DEFAULT_CONFIG EXCEPT !.routes = DefaultRoutes \cup {"join"}, !.expression = e] :
             e \in Expressions }
    \cup { [DEFAULT_CONFIG EXCEPT !.integrationMode = "http"],
           [DEFAULT_CONFIG EXCEPT !.integrationMode = "http",
                                  !.expression = "$request.body.action"] }

InitRoute ==
    /\ phase = "created"
    /\ stops = 0
    /\ posting = [id \in Ids |-> NoPost]
    /\ response = NoResponse
    /\ \E c \in RouteConfigs :
          /\ routes = c.routes
          /\ expression = c.expression
          /\ integrationMode = c.integrationMode
    /\ settled = [id \in Ids |-> {}]
    /\ now = 0
    /\ connections = << >>
    /\ timeoutTimers = << >>
    /\ armed = {}
    /\ sock = [id \in Ids |-> NoSocket]
    /\ connectState = [id \in Ids |-> "none"]
    /\ received = [id \in Ids |-> << >>]
    /\ dispatched = [id \in Ids |-> << >>]
    /\ delivered = [id \in Ids |-> << >>]
    /\ sent = [id \in Ids |-> << >>]

NextRoute ==
    \/ start
    \/ \E id \in Ids : handleConnection(id)
    \/ \E id \in Ids, outcome \in {"accepted", "rejected", "unreachable"} :
          connectCallback(id, outcome)
    \/ \E id \in Ids, message \in RouteFrames : onMessage(id, message)
    \/ \E id \in Ids : clientClose(id)
    \/ \E id \in Ids : onClose(id)

SpecRoute == InitRoute /\ [][NextRoute]_vars

\* ------------------------------------------------------------------ claims
Failed == {"rejected", "unreachable"}

EventsOf(log, eventType) == { i \in 1..Len(log) : log[i].eventType = eventType }

\* The session is out of the live set and none of its timers is left, in the
\* table or armed.
Gone(id) ==
    /\ id \notin DOMAIN connections
    /\ IdleKey(id) \notin DOMAIN timeoutTimers
    /\ HardKey(id) \notin DOMAIN timeoutTimers
    /\ \A h \in armed : h.key[1] # id

ClosingWith(code, reason) ==
    [readyState |-> "CLOSING", code |-> code, reason |-> reason, by |-> "server"]

\* C1: when the $connect dispatch of a session ends with an outcome other
\* than accepted, its socket (open until then) starts closing with code 1011
\* and reason 'Backend connect failed'; and every session whose $connect
\* dispatch failed leaves the live set, with both of its timers cancelled.
C1_ConnectFailureCloses ==
    /\ [][\A id \in Ids :
            ( /\ connectState[id] \notin Failed
              /\ connectState'[id] \in Failed
              /\ sock[id].readyState \in {"NONE", "OPEN"} )
            => sock'[id] = ClosingWith(1011, "Backend connect failed")]_vars
    /\ \A id \in Ids : (connectState[id] \in Failed) ~> Gone(id)

C1_Witness ==
    \E id \in Ids :
        /\ connectState[id] = "rejected"
        /\ sock[id] = [ClosingWith(1011, "Backend connect failed") EXCEPT !.readyState = "CLOSED"]
        /\ Gone(id)

\* The DISCONNECT events the 'close' handler dispatched: they alone carry
\* the close code (a code is never 0).
CloseEvents(log) ==
    { i \in EventsOf(log, "DISCONNECT") : log[i].disconnectStatusCode # 0 }

\* C2: no DISCONNECT event is dispatched on the close of a session whose
\* CONNECT the backend rejected or that never reached the backend.
C2_NoDisconnectAfterFailedConnect ==
    \A id \in Ids :
        connectState[id] \in Failed => CloseEvents(dispatched[id]) = {}

\* C3: a session whose CONNECT was accepted and that a client close, the
\* idle timer, the hard timer or a management DELETE terminated has had
\* exactly one DISCONNECT event dispatched by the time it is removed.
C3_ExactlyOneDisconnect ==
    \A id \in Ids :
        ( /\ connectState[id] = "accepted"
          /\ sock[id].readyState = "CLOSED"
          /\ sock[id].reason \in {"bye", "Idle timeout", "Hard timeout",
                                  "Closed by management API"} )
        => Cardinality(EventsOf(dispatched[id], "DISCONNECT")) = 1

C5_ExactlyOneConnect ==
    \A id \in Ids :
        sock[id].readyState # "NONE"
        => Cardinality(EventsOf(dispatched[id], "CONNECT")) = 1

\* C6: a MESSAGE event of a session is dispatched only once the backend has
\* accepted the session's CONNECT.
C6_NoMessageBeforeAccept ==
    \A id \in Ids :
        EventsOf(dispatched[id], "MESSAGE") # {} => connectState[id] = "accepted"

\* C7: the MESSAGE events of a session (one the backend accepted) reach the
\* backend in the order in which their frames were received.
C7_MessagesDeliveredInOrder ==
    \A id \in Ids :
        connectState[id] = "accepted"
        => \A i, j \in EventsOf(delivered[id], "MESSAGE") :
              i < j => delivered[id][i].n < delivered[id][j].n

\* C8: once the DISCONNECT event of a session (one the backend accepted) has
\* been dispatched, no MESSAGE event of that session is dispatched or
\* delivered any more.
C8_NoMessageAfterDisconnect ==
    [][\A id \in Ids :
          (connectState[id] = "accepted" /\ EventsOf(dispatched[id], "DISCONNECT") # {})
          => /\ EventsOf(dispatched'[id], "MESSAGE") = EventsOf(dispatched[id], "MESSAGE")
             /\ EventsOf(delivered'[id], "MESSAGE") = EventsOf(delivered[id], "MESSAGE")]_vars

\* C9: a successful management push bumps lastActivity and leaves the
\* session with one idle timer, a fresh one of full idleTimeout duration,
\* and with its hard timer untouched.
C9_PushResetsIdleTimer ==
    [][\A id \in Ids :
          sent'[id] # sent[id]
          => /\ connections'[id].lastActivityAt = now
             /\ timeoutTimers'[IdleKey(id)] = Handle(IdleKey(id), now + IdleTimeout)
             /\ {h \in armed' : h.key = IdleKey(id)} = {Handle(IdleKey(id), now + IdleTimeout)}
             /\ timeoutTimers'[HardKey(id)] = timeoutTimers[HardKey(id)]]_vars

\* The time of the last inbound frame of a live session (of its creation,
\* when it has received none).
LastFrameAt(id) ==
    IF received[id] = << >> THEN connections[id].connectedAt
    ELSE received[id][Len(received[id])].at

\* C10: every inbound frame leaves exactly one idle timer armed for the
\* session, a fresh one of full idleTimeout duration; and the idle timer
\* closes the socket with code 1001, and only when idleTimeout has passed
\* since the last inbound frame.
C10_FrameResetsIdleTimer ==
    [][\A id \in Ids :
          /\ received'[id] # received[id]
             => /\ timeoutTimers'[IdleKey(id)] = Handle(IdleKey(id), now + IdleTimeout)
                /\ {h \in armed' : h.key = IdleKey(id)} = {Handle(IdleKey(id), now + IdleTimeout)}
          /\ (sock[id].readyState = "OPEN" /\ sock'[id].reason = "Idle timeout")
             => /\ sock'[id] = ClosingWith(1001, "Idle timeout")
                /\ now - LastFrameAt(id) >= IdleTimeout ]_vars

C10_Witness ==
    \E id \in Ids :
        /\ received[id] # << >>
        /\ received[id][1].at > 0
        /\ sock[id] = ClosingWith(1001, "Idle timeout")

HardHandles(A, id) == {h \in A : h.key = HardKey(id)}

\* C11: the hard timer of a session is armed once, at the creation of the
\* session, for hardTimeout from then; no later step (no inbound frame, no
\* management push) replaces it, arms another or moves its deadline; and
\* when its callback runs on a live session with an open socket, the socket
\* starts closing with code 1001.
C11_HardTimerNeverReset ==
    [][\A id \in Ids :
          LET hard == Handle(HardKey(id), now + HardTimeout)
          IN /\ (sock[id].readyState = "NONE" /\ sock'[id].readyState # "NONE")
                => /\ HardKey(id) \in DOMAIN timeoutTimers'
                   /\ timeoutTimers'[HardKey(id)] = hard
                   /\ HardHandles(armed', id) = {hard}
                   /\ connections'[id].connectedAt = now
             /\ sock[id].readyState # "NONE"
                => /\ HardHandles(armed', id) \subseteq HardHandles(armed, id)
                   /\ HardKey(id) \in DOMAIN timeoutTimers'
                      => /\ HardKey(id) \in DOMAIN timeoutTimers
                         /\ timeoutTimers'[HardKey(id)] = timeoutTimers[HardKey(id)]
             /\ (received'[id] # received[id] \/ sent'[id] # sent[id])
                => /\ HardHandles(armed', id) = HardHandles(armed, id)
                   /\ HardKey(id) \in DOMAIN timeoutTimers
                      => /\ HardKey(id) \in DOMAIN timeoutTimers'
                         /\ timeoutTimers'[HardKey(id)] = timeoutTimers[HardKey(id)]
             /\ ( /\ HardHandles(armed', id) # HardHandles(armed, id)
                  /\ timeoutTimers' = timeoutTimers
                  /\ id \in DOMAIN connections
                  /\ sock[id].readyState = "OPEN" )
                => /\ sock'[id] = ClosingWith(1001, "Hard timeout")
                   /\ now - connections[id].connectedAt >= HardTimeout ]_vars

C11_Witness ==
    \E id \in Ids :
        /\ sock[id] = ClosingWith(1001, "Hard timeout")
        /\ received[id] # << >>
        /\ sent[id] # << >>

\* C12: a frame is written to a socket only while the socket is open: once
\* a close of it has been issued (by the idle or the hard timer, a
\* management DELETE, a failed $connect or stop()) or the client's close has
\* been observed, no step writes to it, however the POST requests and their
\* bodies interleave with the closes.
C12_NoWriteAfterClose ==
    [][\A id \in Ids :
          sent'[id] # sent[id]
          => /\ sock[id].readyState = "OPEN"
             /\ sock'[id] = sock[id]
             /\ Len(sent'[id]) = Len(sent[id]) + 1 ]_vars

\* A POST answered 410 for a session still in the live set whose socket a
\* close was issued for.
C12_Witness ==
    \E id \in Ids :
        /\ id \in DOMAIN connections
        /\ sock[id].readyState = "CLOSING"
        /\ sock[id].by = "server"
        /\ response = Response("POST", ConnectionPath(id), 410, Gone410(id))
        /\ sent[id] # << >>

\* The step is the end of the body of a POST to /@connections/{id}.
EndOfPost(id) == posting[id] # NoPost /\ posting'[id] = NoPost

\* C13: a POST to /@connections/{id} whose session is in the live set, from
\* the request to the end of its body, with an open socket is answered 200
\* and writes one frame to the socket, whose payload is the request body,
\* byte for byte; a POST whose session is absent or whose socket is not open
\* is answered 410, writes nothing and changes no session state.
C13_PostWritesBodyVerbatim ==
    [][\A id \in Ids :
          EndOfPost(id)
          => /\ ( /\ posting[id].connection = "found"
                  /\ id \in DOMAIN connections
                  /\ sock[id].readyState = "OPEN" )
                => /\ response' = Response("POST", ConnectionPath(id), 200, NoBody)
                   /\ Len(sent'[id]) = Len(sent[id]) + 1
                   /\ SubSeq(sent'[id], 1, Len(sent[id])) = sent[id]
                   /\ utf8(sent'[id][Len(sent'[id])]) = bytesOf(posting[id].chunks)
             /\ ( \/ posting[id].connection = "absent" /\ id \notin DOMAIN connections
                  \/ sock[id].readyState # "OPEN" )
                => /\ response' = Response("POST", ConnectionPath(id), 410, Gone410(id))
                   /\ UNCHANGED <<sent, connections, timeoutTimers, armed, sock>> ]_vars

\* The step answers a request of the method to /@connections/{id}.
Answers(method, id) ==
    /\ response' # NoResponse
    /\ response'.method = method
    /\ response'.path = ConnectionPath(id)

\* C14: a GET, a POST or a DELETE to /@connections/{id} is answered 410
\* whenever session id is not in the live set or its socket is not open (a
\* close was issued or observed, or the socket has closed).
C14_Gone410WhenAbsentOrClosed ==
    [][\A id \in Ids, method \in {"GET", "POST", "DELETE"} :
          ( /\ Answers(method, id)
            /\ (id \notin DOMAIN connections \/ sock[id].readyState # "OPEN") )
          => response'.status = 410 ]_vars

\* C15: a DELETE to /@connections/{id} of a session in the live set with an
\* open socket starts the close of the socket with code 1000 and reason
\* 'Closed by management API' and is answered 204, and the session then
\* leaves the live set; a DELETE of an absent session or of one whose socket
\* is not open is answered 410 and closes nothing.
C15_DeleteCloses ==
    /\ [][\A id \in Ids :
            Answers("DELETE", id)
            => IF id \in DOMAIN connections /\ sock[id].readyState = "OPEN"
               THEN /\ response' = Response("DELETE", ConnectionPath(id), 204, NoBody)
                    /\ sock'[id] = ClosingWith(1000, "Closed by management API")
               ELSE /\ response' = Response("DELETE", ConnectionPath(id), 410, Gone410(id))
                    /\ sock' = sock ]_vars
    /\ \A id \in Ids :
          (sock[id] = ClosingWith(1000, "Closed by management API"))
             ~> (id \notin DOMAIN connections)

C15_Witness ==
    \E id \in Ids :
        /\ sock[id] = [ClosingWith(1000, "Closed by management API")
                         EXCEPT !.readyState = "CLOSED"]
        /\ id \notin DOMAIN connections
        /\ phase = "listening"

\* The step answers a request that is read-only (a GET) or malformed (an
\* unknown path, answered 404; an unsupported method on /@connections/{id},
\* answered 405).
AnswersReadOnly ==
    /\ response' # NoResponse
    /\ response'.method = "GET" \/ response'.status \in {404, 405}

Unobserved == {id \in Ids : sock[id].readyState \in {"OPEN", "CLOSING"}}

HealthAnswer(n) == Response("GET", <<"/health">>, 200, [status |-> "ok", connections |-> n])

\* C17 as claimed: the size of the live set, which getConnectionCount() and
\* GET /health report, is at every moment the number of sessions admitted
\* whose close has not yet been observed.
C17_CountIsUnobservedSessions ==
    Cardinality(DOMAIN connections) = Cardinality(Unobserved)

\* C17 as amended: GET /health reports the size of the live set; until
\* stop() is called that is the number of sessions admitted whose close has
\* not yet been observed, one more with each WebSocket accepted and one less
\* with each close observed; stop() makes it 0 at once, before the closes it
\* issued are observed, and it stays 0.
C17_CountUntilStop ==
    /\ [](phase \in {"created", "listening"}
            => Cardinality(DOMAIN connections) = Cardinality(Unobserved))
    /\ [](phase \notin {"created", "listening"} => Cardinality(DOMAIN connections) = 0)
    /\ [][ /\ (response' # NoResponse /\ response'.path = <<"/health">>
                                       /\ response'.method = "GET")
               => response' = HealthAnswer(Cardinality(DOMAIN connections))
            /\ \A id \in Ids :
                 /\ (sock[id].readyState = "NONE" /\ sock'[id].readyState # "NONE")
                    => Cardinality(DOMAIN connections')
                         = Cardinality(DOMAIN connections) + 1
                 /\ ( /\ sock[id].readyState # "CLOSED"
                      /\ sock'[id].readyState = "CLOSED"
                      /\ phase = "listening" )
                    => Cardinality(DOMAIN connections')
                         = Cardinality(DOMAIN connections) - 1 ]_vars

\* The health check reports 0 while the close stop() issued for a session is
\* still to be observed.
C17_Witness ==
    /\ phase = "stopping"
    /\ response = HealthAnswer(0)
    /\ \E id \in Ids : sock[id] = ClosingWith(1001, "Server shutting down")

\* C18: no two WebSockets accepted, open or closed, have the same
\* connectionId, and every open WebSocket is the one its connectionId names
\* in the live set (no admission has replaced its entry, no close of another
\* has removed it).
C18_IdentitiesNeverCollide ==
    phase = "listening"
    => /\ \A j, k \in 1..Len(sock) :
             j # k => sock[j].connectionId # sock[k].connectionId
       /\ \A k \in 1..Len(sock) :
             sock[k].readyState = "OPEN"
             => /\ sock[k].connectionId \in DOMAIN connections
                /\ connections[sock[k].connectionId].ws = k

\* C19: a call of stop() starts the close of every live session whose socket
\* is open with code 1001 and reason 'Server shutting down', empties the
\* live set and the timer table and leaves none of the table's timers armed;
\* the WebSocket server closes after that, the HTTP server after the
\* WebSocket server, and stop() resolves only then; when it resolves, the
\* live set and the timer table are empty and no timer is armed.
C19_StopOrder ==
    [][ /\ stops' > stops
           => /\ \A id \in DOMAIN connections :
                    sock[id].readyState = "OPEN"
                    => sock'[id] = ClosingWith(1001, "Server shutting down")
              /\ connections' = << >>
              /\ timeoutTimers' = << >>
              /\ \A k \in DOMAIN timeoutTimers : timeoutTimers[k] \notin armed'
              /\ phase' \in {"stopping", "closing", "stopped"}
        /\ phase' # phase
           => <<phase, phase'>> \in { <<"created", "listening">>, <<"listening", "stopping">>,
                                      <<"stopping", "closing">>, <<"closing", "stopped">> }
        /\ stops' < stops
           => /\ phase' = "stopped"
              /\ stops' = 0
              /\ connections' = << >>
              /\ timeoutTimers' = << >>
              /\ armed' = {}
              /\ \A id \in Ids : sock'[id].readyState \in {"NONE", "CLOSED"} ]_vars

C19_Witness ==
    /\ phase = "stopped"
    /\ stops = 0
    /\ \E id \in Ids :
          /\ sock[id] = [ClosingWith(1001, "Server shutting down")
                           EXCEPT !.readyState = "CLOSED"]
          /\ received[id] # << >>

\* C20: a call of stop() made while an earlier one runs, or after it has
\* resolved, finds the live set empty and leaves the server as a single
\* stop() leaves it: the live set and the timer table empty, every socket
\* and its close code as they were, no event dispatched, nothing written,
\* the shutdown where it was; and the calls pending resolve together, when
\* the HTTP server has closed.
C20_StopIdempotent ==
    [][ /\ (stops' > stops /\ phase # "listening")
           => /\ stops' = stops + 1
              /\ phase' = phase
              /\ connections = << >>
              /\ connections' = << >>
              /\ timeoutTimers' = << >>
              /\ \A k \in DOMAIN timeoutTimers : timeoutTimers[k] \notin armed'
              /\ UNCHANGED <<sock, dispatched, delivered, sent, received, connectState>>
        /\ (stops > 1 /\ stops' # stops /\ stops' <= stops)
           => stops' = 0 /\ phase' = "stopped" ]_vars

\* A second stop() while the close the first one issued is still under way.
C20_Witness ==
    /\ stops = 2
    /\ phase = "stopping"
    /\ \E id \in Ids : sock[id] = ClosingWith(1001, "Server shutting down")

\* C21: the route selector returns the value the path leads to exactly when
\* that value is a string and a key of the integration table; it returns
\* '$default' when no expression is configured, when the message is not JSON,
\* when a step of the path meets a non-object or an absent member, and when
\* the value is no string or no key of the table.  Stated of every frame the
\* message handler has received.
RouteValue(message) ==
    IF JSONparse(message).t = "error" THEN Absent
    ELSE Walk(JSONparse(message), ExpressionPath(expression))

C21_RouteSelector ==
    \A id \in Ids : \A i \in 1..Len(received[id]) :
        LET message == received[id][i].text
            value == RouteValue(message)
        IN selectRoute(message) =
              IF /\ expression \notin {NoExpression, ""}
                 /\ ExpressionPath(expression) # << >>
                 /\ value.t = "string"
                 /\ value.s \in routes
              THEN value.s
              ELSE "$default"

\* C22: the lookup falls back to '$default' for message routing alone: when
\* the integration table has no '$connect' entry no CONNECT event is POSTed
\* to any uri and the connect fails as unreachable, and when it has no
\* '$disconnect' entry no DISCONNECT event is POSTed, with or without a
\* '$default' entry.
C22_NoLifecycleFallback ==
    \A id \in Ids :
        /\ "$connect" \notin routes =>
              /\ EventsOf(dispatched[id], "CONNECT") = {}
              /\ connectState[id] \in {"none", "unreachable"}
        /\ "$disconnect" \notin routes =>
              EventsOf(dispatched[id], "DISCONNECT") = {}

\* C23: a failed MESSAGE dispatch never tears the session down.  The end of
\* a MESSAGE POST that the backend rejected or that never reached it changes
\* neither the live set nor any socket nor any timer; and a frame, whether
\* or not an integration is found for it and whatever failed before, leaves
\* the session in the live set, its socket as it was, its idle timer armed
\* anew and its hard timer armed, and is POSTed when there is an integration
\* for its route.
FailedMessages(id) ==
    { s \in settled[id] : s.outcome \in Failed /\ dispatched[id][s.n].eventType = "MESSAGE" }

TimerArmed(k) == k \in DOMAIN timeoutTimers /\ timeoutTimers[k] \in armed

C23_FailedMessageKeepsSession ==
    [][ \A id \in Ids :
          /\ (\E s \in settled'[id] \ settled[id] :
                 s.outcome \in Failed /\ dispatched[id][s.n].eventType = "MESSAGE")
                => /\ connections' = connections
                   /\ sock' = sock
                   /\ timeoutTimers' = timeoutTimers
                   /\ armed' = armed
          /\ received'[id] # received[id]
                => /\ sock'[id] = sock[id]
                   /\ (id \in DOMAIN connections => id \in DOMAIN connections')
                   /\ TimerArmed(IdleKey(id))'
                   /\ (TimerArmed(HardKey(id)) => TimerArmed(HardKey(id))')
                   /\ HasUri(Integration(selectRoute(received'[id][Len(received'[id])].text)))
                         => Len(dispatched'[id]) = Len(dispatched[id]) + 1
      ]_vars

\* A MESSAGE POST has failed, a later frame was POSTed, and the session is
\* live with its socket open and both timers armed.
C23_Witness ==
    \E id \in Ids : \E s \in FailedMessages(id) :
        /\ \E i \in EventsOf(dispatched[id], "MESSAGE") : i > s.n
        /\ id \in DOMAIN connections
        /\ sock[id].readyState = "OPEN"
        /\ TimerArmed(IdleKey(id))
        /\ TimerArmed(HardKey(id))

\* C24: with a '$default' integration configured, every frame a session
\* receives starts exactly one POST, of a MESSAGE event whose connectionId is
\* that session's and whose body is the frame's text, and starts no POST for
\* another session.
C24_OneMessagePerFrame ==
    [][ \A id \in Ids :
          (received'[id] # received[id] /\ "$default" \in routes)
            => /\ Len(dispatched'[id]) = Len(dispatched[id]) + 1
               /\ LET e == dispatched'[id][Len(dispatched'[id])]
                  IN /\ e.eventType = "MESSAGE"
                     /\ e.connectionId = id
                     /\ e.body = received'[id][Len(received'[id])].text
               /\ \A j \in Ids \ {id} : dispatched'[j] = dispatched[j]
      ]_vars

\* C25: every DISCONNECT event is the event of a close observed on the
\* socket of its session: it carries the connectionId of the session (that
\* of its CONNECT event), the close code observed as disconnectStatusCode
\* and the reason observed as disconnectReason.
C25_DisconnectCarriesClose ==
    \A id \in Ids : \A i \in EventsOf(dispatched[id], "DISCONNECT") :
        LET e == dispatched[id][i]
        IN /\ sock[id].readyState = "CLOSED"
           /\ e.disconnectStatusCode = sock[id].code
           /\ e.disconnectReason = sock[id].reason
           /\ e.connectionId = id
           /\ \A j \in EventsOf(dispatched[id], "CONNECT") :
                 dispatched[id][j].connectionId = e.connectionId

\* C26: the configured integration mode chooses the wire shape of every
\* event dispatched: in mode 'http' the body of the POST is the raw text of
\* the frame (empty for connect and disconnect) and the request carries the
\* headers connectionId, x-event-type and x-route-key, and for a DISCONNECT
\* event x-disconnect-status-code and x-disconnect-reason too.
HttpModeHeaders(event) ==
    {"connectionId", "x-event-type", "x-route-key"}
      \cup (IF event.eventType = "DISCONNECT"
            THEN {"x-disconnect-status-code", "x-disconnect-reason"}
            ELSE {})

C26_WireShapeByMode ==
    integrationMode = "http" =>
        \A id \in Ids : \A i \in 1..Len(dispatched[id]) :
            LET event == dispatched[id][i]
                request == fetchRequest(event)
            IN /\ request.body.encoding = "text"
               /\ request.body.of = (IF event.eventType = "MESSAGE" THEN event.body ELSE "")
               /\ HttpModeHeaders(event) \subseteq DOMAIN request.headers

\* C27: each close the server starts carries the code of its cause and no
\* other: 1000 when a management DELETE starts it, 1001 when the idle timer,
\* the hard timer or stop() does, 1011 when the $connect dispatch failed.
ServerCloses(id) ==
    /\ sock[id].readyState \in {"NONE", "OPEN"}
    /\ sock'[id].readyState = "CLOSING"
    /\ sock'[id].by = "server"

ByDelete(id) == response' = Response("DELETE", ConnectionPath(id), 204, NoBody)

ByStop == stops' > stops

ByTimer(id) == ~ByStop /\ \E h \in armed \ armed' : h.key[1] = id /\ Due(h)

ByConnectFailure(id) == connectState[id] \notin Failed /\ connectState'[id] \in Failed

C27_CloseCodeOfCause ==
    [][ \A id \in Ids :
          ServerCloses(id) =>
            \/ ByDelete(id) /\ sock'[id].code = 1000
            \/ ByStop /\ sock'[id].code = 1001
            \/ ByTimer(id) /\ sock'[id].code = 1001
            \/ ByConnectFailure(id) /\ sock'[id].code = 1011
      ]_vars

\* The hard timer has closed a socket whose $connect had been accepted.
C27_Witness ==
    \E id \in Ids :
        /\ sock[id] = ClosingWith(1001, "Hard timeout")
        /\ connectState[id] = "accepted"

\* C28: every armed timer of the timer table belongs to a session of the
\* live set: each way a session ends cancels both its timers no later than
\* it removes the session, and nothing arms a timer for a session that has
\* left the live set.
C28_ArmedTimersOfLiveSessions ==
    \A k \in DOMAIN timeoutTimers :
        timeoutTimers[k] \in armed => k[1] \in DOMAIN connections

\* C29: a close attempted on a session that is closing or gone does nothing:
\* once a close is issued or observed on a socket, no step (a timer firing, a
\* DELETE, a failed $connect, stop()) replaces its code, its reason or its
\* origin, so no second close is sent; and a timer that fires for an
\* identity absent from the live set changes nothing but the timer itself.
TimerFires(id) ==
    /\ \E h \in armed : h.key[1] = id /\ Due(h) /\ armed' = armed \ {h}
    /\ timeoutTimers' = timeoutTimers

C29_DoubleCloseNoOp ==
    [][ \A id \in Ids :
          /\ sock[id].readyState \in {"CLOSING", "CLOSED"}
                => /\ sock'[id].readyState \in {"CLOSING", "CLOSED"}
                   /\ sock'[id].code = sock[id].code
                   /\ sock'[id].reason = sock[id].reason
                   /\ sock'[id].by = sock[id].by
          /\ (TimerFires(id) /\ id \notin DOMAIN connections)
                => UNCHANGED <<phase, stops, posting, routes, expression, integrationMode,
                               settled, now, connections, timeoutTimers, sock, connectState,
                               received, dispatched, delivered, sent>>
      ]_vars

\* The hard timer has fired on a socket that a DELETE had already closed:
\* the socket keeps the code and the reason of the DELETE.
C29_Witness ==
    \E id \in Ids :
        /\ sock[id] = ClosingWith(1000, "Closed by management API")
        /\ HardKey(id) \in DOMAIN timeoutTimers
        /\ timeoutTimers[HardKey(id)] \notin armed

\* C30: at every moment each session has at most one armed idle timer and
\* at most one armed hard timer, so at most two armed timers, whatever
\* frames, pushes and resets came before.
ArmedOf(k) == { h \in armed : h.key = k }

C30_AtMostTwoTimers ==
    \A id \in Ids :
        /\ Cardinality(ArmedOf(IdleKey(id))) <= 1
        /\ Cardinality(ArmedOf(HardKey(id))) <= 1
        /\ Cardinality({ h \in armed : h.key[1] = id }) <= 2

\* A frame that came after the connection has reset the idle timer, and the
\* session has exactly one idle and one hard timer armed.
C30_Witness ==
    \E id \in DOMAIN connections :
        /\ received[id] # << >>
        /\ received[id][Len(received[id])].at > connections[id].connectedAt
        /\ Cardinality(ArmedOf(IdleKey(id))) = 1
        /\ Cardinality(ArmedOf(HardKey(id))) = 1

C32_SessionEndsAtHardTimeout ==
    /\ [](\A id \in DOMAIN connections :
            (HardKey(id) \in DOMAIN timeoutTimers /\ timeoutTimers[HardKey(id)] \notin armed)
              => sock[id].readyState # "OPEN")
    /\ \A id \in Ids : (id \in DOMAIN connections) ~> (id \notin DOMAIN connections)

\* The hard timer has closed a session that received a frame after each of
\* the earlier ticks of the clock.
C32_Witness ==
    \E id \in Ids :
        /\ sock[id] = ClosingWith(1001, "Hard timeout")
        /\ Len(received[id]) = 2
        /\ received[id][1].at = 1
        /\ received[id][2].at = 2

\* C33: stop() resolves in the end without waiting for the backend: every
\* pending stop() resolves although nothing makes the POSTs in flight
\* ($connect, MESSAGE, $disconnect) ever end.
C33_StopResolves == (stops > 0) ~> (stops = 0)

\* Every stop() has resolved while the $connect POST of a session is still
\* in flight, after a MESSAGE and a $disconnect POST that nothing answered.
C33_Witness ==
    /\ phase = "stopped"
    /\ stops = 0
    /\ \E id \in Ids :
          /\ connectState[id] = "inflight"
          /\ EventsOf(dispatched[id], "MESSAGE") # {}
          /\ EventsOf(dispatched[id], "DISCONNECT") # {}
          /\ delivered[id] = << >>

\* C34: removing a session on close never waits for the backend: the step
\* that observes the close of a socket starts the $disconnect POST (when
\* there is an integration for it), cancels the timers of the session and
\* takes the session out of the live set, all at once; the end of a POST
\* removes nothing.
C34_RemovalWithoutBackend ==
    [][ \A id \in Ids :
          /\ (sock[id].readyState # "CLOSED" /\ sock'[id].readyState = "CLOSED")
                => /\ Gone(id)'
                   /\ HasUri(Integration("$disconnect"))
                         => /\ Len(dispatched'[id]) = Len(dispatched[id]) + 1
                            /\ dispatched'[id][Len(dispatched'[id])].eventType = "DISCONNECT"
                            /\ Len(dispatched'[id]) \in Pending(id)'
          /\ settled'[id] # settled[id]
                => /\ connections' = connections
                   /\ timeoutTimers' = timeoutTimers
                   /\ armed' = armed
      ]_vars

\* A session is gone, its close observed, while the $disconnect POST started
\* at its close has not ended.
C34_Witness ==
    \E id \in Ids : \E i \in Pending(id) :
        /\ dispatched[id][i].eventType = "DISCONNECT"
        /\ dispatched[id][i].disconnectStatusCode = sock[id].code
        /\ sock[id].readyState = "CLOSED"
        /\ Gone(id)

\* C35: a frame can only produce a MESSAGE event: whatever its text and the
\* route selection expression, the route key chosen for a frame received is
\* neither '$connect' nor '$disconnect', and every event whose body is not
\* the null of the lifecycle events is a MESSAGE event.
C35_FramesMakeMessagesOnly ==
    \A id \in Ids :
        /\ \A i \in 1..Len(received[id]) :
              selectRoute(received[id][i].text) \notin {"$connect", "$disconnect"}
        /\ \A i \in 1..Len(dispatched[id]) :
              dispatched[id][i].body # NullBody => dispatched[id][i].eventType = "MESSAGE"

\* C36: the management API acts only on admitted sessions: a POST answers
\* 200 and a DELETE 204 on /@connections/{id} only when the backend has
\* accepted the $connect of session id, and a push is written to a client
\* only then.
C36_ManagementAfterAdmission ==
    [][ \A id \in Ids :
          /\ ( \/ response' = Response("POST", ConnectionPath(id), 200, NoBody)
               \/ response' = Response("DELETE", ConnectionPath(id), 204, NoBody) )
                => connectState[id] = "accepted"
          /\ sent'[id] # sent[id] => connectState[id] = "accepted"
      ]_vars

\* C37: once the server has issued a close for a session (by a timer, a
\* DELETE, a failed $connect or stop()), a frame that still arrives on the
\* socket before the close completes is not dispatched: it starts no POST.
C37_NoDispatchWhileClosing ==
    [][ \A id \in Ids :
          (received'[id] # received[id] /\ sock[id].readyState = "CLOSING" /\ sock[id].by = "server")
            => dispatched'[id] = dispatched[id]
      ]_vars

\* C38: every HTTP request, whatever its method and its path (a
\* /@connections/{id} whose {id} is no valid percent-encoding included), is
\* answered with one of the statuses 200, 204, 404, 405, 410 and leaves the
\* server running and the sessions it does not name as they were: no
\* request ends the process, and every response written has one of these
\* statuses.
C38_EveryRequestAnswered ==
    /\ phase # "crashed"
    /\ response.status \in {0, 200, 204, 404, 405, 410}

====
